---- MODULE Spec2Model ----
(***************************************************************************)
(* State-machine model of LatimesScraper.scrape and the steps it calls     *)
(* (src/LATimesScrapper.py): search, category filter, paged extraction     *)
(* with the date cutoff, enrichment, saving and the final driver.quit().   *)
(***************************************************************************)
EXTENDS Integers, Sequences, FiniteSets, TLC

VARIABLES
    pc,              \* position of the single thread inside scrape
    now,             \* value of dt.datetime.today() during the run
    months_back,     \* argument of scrape / _extract_data
    categories,      \* argument of scrape / _filter_categories
    site,            \* what the results pages of the web site hold
    sitePage,        \* results page the browser currently shows
    date_min,        \* local of _extract_data
    iter,            \* loop variable of "for _ in range(9)"
    li_elements,     \* entries of the page being consumed
    idx,             \* index of the entry being consumed in li_elements
    date_ls, title_ls, description_ls, picture_ls,
    seen,            \* every entry handed out by the page waits, in order
    data_articles,   \* value returned by _extract_data
    exitVia,         \* which exit of _extract_data was taken
    log,             \* logger lines, in order
    pageReads,       \* successful result-page reads
    clicks,          \* next-page clicks
    quitCalls,       \* calls of driver.quit()
    enriched,        \* _add_columns completed on the returned frame
    fileWritten,     \* df.to_excel completed
    outcome          \* how scrape ended

vars == <<pc, now, months_back, categories, site, sitePage, date_min, iter,
          li_elements, idx, date_ls, title_ls, description_ls, picture_ls,
          seen, data_articles, exitVia, log, pageReads, clicks, quitCalls,
          enriched, fileWritten, outcome>>

-----------------------------------------------------------------------------
(* Bounds of the model *)
MaxPageLen == 2
MaxLead == 2
TicksPerDay == 2
MaxMonthsBack == 2

(* Program constant: range(9) *)
MaxPages == 9

-----------------------------------------------------------------------------
(* datetime values: a total order on (year, month, day, time of day) *)
Stamp(y, m, d, t) == (((y * 12 + (m - 1)) * 31) + (d - 1)) * TicksPerDay + t

NowSet ==
    { [y |-> 2023, m |-> 2, d |-> 1, t |-> 0],
      [y |-> 2023, m |-> 2, d |-> 15, t |-> TicksPerDay - 1] }

NowStamp(n) == Stamp(n.y, n.m, n.d, n.t)

MonthsBackSet == (-1..MaxMonthsBack) \cup {-11}

ValidMonthWraps(n, mb) == (((n.m - mb - 1) % 12) + 1) \in 1..12

(* dt.datetime(year, month, 1) raises ValueError unless month is in 1..12 *)
ValidMonth(n, mb) == (n.m - mb) \in 1..12

DateMin(n, mb) == Stamp(n.y, n.m - mb, 1, 0)

-----------------------------------------------------------------------------
(* Raw timestamp texts of p.promo-timestamp *)
AgoText == [shape |-> "ago", dot |-> FALSE, y |-> 0, m |-> 0, d |-> 0]

RawTexts ==
    { AgoText,
      [shape |-> "long",  dot |-> FALSE, y |-> 2023, m |-> 2,  d |-> 1],
      [shape |-> "abbr",  dot |-> TRUE,  y |-> 2023, m |-> 1,  d |-> 1],
      [shape |-> "abbr",  dot |-> FALSE, y |-> 2022, m |-> 12, d |-> 31],
      [shape |-> "other", dot |-> TRUE,  y |-> 2023, m |-> 9,  d |-> 5] }

(* date.replace('.', '') *)
StripDots(text) == [text EXCEPT !.dot = FALSE]

(* 'ago' in date *)
ContainsAgo(text) == text.shape = "ago"

(* strptime(date, "%B %d, %Y"): full month name, no other characters *)
ParsesLong(text) == text.shape = "long" /\ ~text.dot

(* strptime(date, "%b %d, %Y"): abbreviated month name, no other characters *)
ParsesAbbr(text) == text.shape = "abbr" /\ ~text.dot

NormalizeAgoMidnight(text, n) ==
    LET s == StripDots(text) IN
    IF ContainsAgo(s) THEN [ok |-> TRUE, value |-> Stamp(n.y, 1, 1, 0)]
    ELSE IF ParsesLong(s) \/ ParsesAbbr(s)
         THEN [ok |-> TRUE, value |-> Stamp(s.y, s.m, s.d, 0)]
         ELSE [ok |-> FALSE, value |-> 0]

(* lines 159-167: the date of an entry, or a ValueError (ok = FALSE) *)
Normalize(text, n) ==
    LET s == StripDots(text) IN
    IF ContainsAgo(s) THEN [ok |-> TRUE, value |-> NowStamp(n)]
    ELSE IF ParsesLong(s)
         THEN [ok |-> TRUE, value |-> Stamp(s.y, s.m, s.d, 0)]
         ELSE IF ParsesAbbr(s)
              THEN [ok |-> TRUE, value |-> Stamp(s.y, s.m, s.d, 0)]
              ELSE [ok |-> FALSE, value |-> 0]

BelowCutoffLe(date, dmin) == date <= dmin

BelowCutoffNever(date, dmin) == FALSE

(* line 170: date < date_min *)
BelowCutoff(date, dmin) == date < dmin

-----------------------------------------------------------------------------
(* The web site: entries in listing order, pageLen of them on each page *)
Fields == {"date", "title", "description", "picture"}

Complete == { [text |-> t, missing |-> "none"] : t \in RawTexts }

Broken == { [text |-> AgoText, missing |-> f] : f \in Fields }

Kinds == Complete \cup Broken

(* leadLen entries of one kind, then entries of another kind without end *)
Sites ==
    { s \in [lead : Complete, leadLen : 0..MaxLead, tail : Kinds,
             pageLen : 1..MaxPageLen] :
        s.leadLen = 0 => s.lead = [text |-> AgoText, missing |-> "none"] }

KindAt(s, n) == IF n <= s.leadLen THEN s.lead ELSE s.tail

(* the entry at listing position n: its sub-elements carry its own texts *)
EntryAt(s, n) ==
    [id |-> n, text |-> KindAt(s, n).text, title |-> <<"title", n>>,
     description |-> <<"description", n>>, picture |-> <<"picture", n>>,
     missing |-> KindAt(s, n).missing]

(* the li elements of results page p *)
PageEntries(s, p) ==
    [i \in 1..s.pageLen |-> EntryAt(s, (p - 1) * s.pageLen + i)]

CategorySet == { <<>>, <<"World & Nation", "Nope">> }

AvailableCategories == {"World & Nation", "Politics"}

-----------------------------------------------------------------------------
None == [kind |-> "None", Date |-> <<>>, Title |-> <<>>,
         Description |-> <<>>, Picture |-> <<>>]

Unset == [kind |-> "Unset", Date |-> <<>>, Title |-> <<>>,
          Description |-> <<>>, Picture |-> <<>>]

(* pd.DataFrame({'Date': ..., 'Title': ..., ...}) *)
DataFrame(d, t, ds, p) ==
    [kind |-> "DataFrame", Date |-> d, Title |-> t,
     Description |-> ds, Picture |-> p]

Init ==
    /\ pc = "search"
    /\ now \in NowSet
    /\ months_back \in MonthsBackSet
    /\ categories \in CategorySet
    /\ site \in Sites
    /\ sitePage = 1
    /\ date_min = 0
    /\ iter = 0
    /\ li_elements = <<>>
    /\ idx = 0
    /\ date_ls = <<>>
    /\ title_ls = <<>>
    /\ description_ls = <<>>
    /\ picture_ls = <<>>
    /\ seen = <<>>
    /\ data_articles = Unset
    /\ exitVia = "none"
    /\ log = <<>>
    /\ pageReads = 0
    /\ clicks = 0
    /\ quitCalls = 0
    /\ enriched = FALSE
    /\ fileWritten = FALSE
    /\ outcome = "running"

inputs == <<now, months_back, categories, site>>
columns == <<date_ls, title_ls, description_ls, picture_ls>>
browser == <<sitePage, pageReads, clicks>>
loopVars == <<date_min, iter, li_elements, idx, seen>>
ending == <<quitCalls, enriched, fileWritten, outcome>>

-----------------------------------------------------------------------------
(* _search: every failure is caught and logged inside the method *)
Search ==
    /\ pc = "search"
    /\ \E ok \in BOOLEAN :
         log' = IF ok THEN log ELSE Append(log, "search")
    /\ pc' = "filter"
    /\ UNCHANGED <<inputs, columns, browser, loopVars, ending,
                   data_articles, exitVia>>

(* the warnings of the loop over the requested categories *)
RECURSIVE CategoryWarnings(_)
CategoryWarnings(cs) ==
    IF cs = <<>> THEN <<>>
    ELSE (IF Head(cs) \in AvailableCategories THEN <<>> ELSE <<"warning">>)
         \o CategoryWarnings(Tail(cs))

(* _filter_categories: a no-op on an empty list, failures caught and logged *)
FilterCategories ==
    /\ pc = "filter"
    /\ IF categories = <<>>
       THEN log' = log
       ELSE \E stage \in {"open", "apply", "ok"} :
              log' = CASE stage = "open"  -> Append(log, "filter")
                       [] stage = "apply" ->
                            Append(log \o CategoryWarnings(categories), "filter")
                       [] stage = "ok"    -> log \o CategoryWarnings(categories)
    /\ pc' = "extract_init"
    /\ UNCHANGED <<inputs, columns, browser, loopVars, ending,
                   data_articles, exitVia>>

(* lines 196-198: the except of _extract_data logs and falls off the end *)
ExtractRaise(where) ==
    /\ log' = Append(log, "extract")
    /\ data_articles' = None
    /\ exitVia' = where
    /\ pc' = "add_columns"

(* lines 172 and 194 *)
ExtractReturn(how) ==
    /\ data_articles' = DataFrame(date_ls, title_ls, description_ls, picture_ls)
    /\ exitVia' = how
    /\ log' = log
    /\ pc' = "add_columns"

(* lines 147-149 *)
ExtractInit ==
    /\ pc = "extract_init"
    /\ IF ValidMonth(now, months_back)
       THEN /\ date_min' = DateMin(now, months_back)
            /\ pc' = "wait_li"
            /\ UNCHANGED <<log, data_articles, exitVia>>
       ELSE /\ ExtractRaise("error_cutoff")
            /\ UNCHANGED date_min
    /\ UNCHANGED <<inputs, columns, browser, iter, li_elements, idx, seen,
                   ending>>

(* line 154: wait for the li elements of the page the browser shows *)
WaitLi ==
    /\ pc = "wait_li"
    /\ \E ok \in BOOLEAN :
         IF ok
         THEN /\ li_elements' = PageEntries(site, sitePage)
              /\ seen' = seen \o PageEntries(site, sitePage)
              /\ idx' = 1
              /\ pageReads' = pageReads + 1
              /\ pc' = "read_date"
              /\ UNCHANGED <<log, data_articles, exitVia>>
         ELSE /\ ExtractRaise("error_wait")
              /\ UNCHANGED <<li_elements, seen, idx, pageReads>>
    /\ UNCHANGED <<inputs, columns, sitePage, clicks, date_min, iter, ending>>

ReadDateBreak ==
    /\ pc = "read_date"
    /\ LET li == li_elements[idx]
           date == Normalize(li.text, now)
       IN  IF li.missing = "date" \/ ~date.ok
           THEN /\ ExtractRaise("error_entry")
                /\ UNCHANGED date_ls
           ELSE IF BelowCutoff(date.value, date_min)
                THEN /\ pc' = "click_next"
                     /\ UNCHANGED <<date_ls, log, data_articles, exitVia>>
                ELSE /\ date_ls' = Append(date_ls, date.value)
                     /\ pc' = "read_title"
                     /\ UNCHANGED <<log, data_articles, exitVia>>
    /\ UNCHANGED <<inputs, title_ls, description_ls, picture_ls, browser,
                   loopVars, ending>>

(* lines 159-173: date of the entry, cutoff test, append *)
ReadDate ==
    /\ pc = "read_date"
    /\ LET li == li_elements[idx]
           date == Normalize(li.text, now)
       IN  IF li.missing = "date" \/ ~date.ok
           THEN /\ ExtractRaise("error_entry")
                /\ UNCHANGED date_ls
           ELSE IF BelowCutoff(date.value, date_min)
                THEN /\ ExtractReturn("cutoff")
                     /\ UNCHANGED date_ls
                ELSE /\ date_ls' = Append(date_ls, date.value)
                     /\ pc' = "read_title"
                     /\ UNCHANGED <<log, data_articles, exitVia>>
    /\ UNCHANGED <<inputs, title_ls, description_ls, picture_ls, browser,
                   loopVars, ending>>

(* lines 176-177 *)
ReadTitle ==
    /\ pc = "read_title"
    /\ LET li == li_elements[idx]
       IN  IF li.missing = "title"
           THEN /\ ExtractRaise("error_entry")
                /\ UNCHANGED title_ls
           ELSE /\ title_ls' = Append(title_ls, li.title)
                /\ pc' = "read_description"
                /\ UNCHANGED <<log, data_articles, exitVia>>
    /\ UNCHANGED <<inputs, date_ls, description_ls, picture_ls, browser,
                   loopVars, ending>>

(* lines 180-181 *)
ReadDescription ==
    /\ pc = "read_description"
    /\ LET li == li_elements[idx]
       IN  IF li.missing = "description"
           THEN /\ ExtractRaise("error_entry")
                /\ UNCHANGED description_ls
           ELSE /\ description_ls' = Append(description_ls, li.description)
                /\ pc' = "read_picture"
                /\ UNCHANGED <<log, data_articles, exitVia>>
    /\ UNCHANGED <<inputs, date_ls, title_ls, picture_ls, browser,
                   loopVars, ending>>

ReadPictureSwallow ==
    /\ pc = "read_picture"
    /\ LET li == li_elements[idx]
       IN  /\ picture_ls' = IF li.missing = "picture" THEN picture_ls
                            ELSE Append(picture_ls, li.picture)
           /\ idx' = IF idx < Len(li_elements) THEN idx + 1 ELSE idx
           /\ pc' = IF idx < Len(li_elements) THEN "read_date" ELSE "click_next"
           /\ UNCHANGED <<log, data_articles, exitVia>>
    /\ UNCHANGED <<inputs, date_ls, title_ls, description_ls, browser,
                   date_min, iter, li_elements, seen, ending>>

(* lines 184-185, then the next li or the end of the inner loop *)
ReadPicture ==
    /\ pc = "read_picture"
    /\ LET li == li_elements[idx]
       IN  IF li.missing = "picture"
           THEN /\ ExtractRaise("error_entry")
                /\ UNCHANGED <<picture_ls, idx>>
           ELSE /\ picture_ls' = Append(picture_ls, li.picture)
                /\ idx' = IF idx < Len(li_elements) THEN idx + 1 ELSE idx
                /\ pc' = IF idx < Len(li_elements) THEN "read_date"
                         ELSE "click_next"
                /\ UNCHANGED <<log, data_articles, exitVia>>
    /\ UNCHANGED <<inputs, date_ls, title_ls, description_ls, browser,
                   date_min, iter, li_elements, seen, ending>>

(* lines 188-189: the wait for the next-page control times out when the
   control is not there; otherwise the click moves the browser on *)
ClickNext ==
    /\ pc = "click_next"
    /\ \E ok \in BOOLEAN :
         IF ok
         THEN /\ clicks' = clicks + 1
              /\ sitePage' = sitePage + 1
              /\ pc' = "wait_next"
              /\ UNCHANGED <<log, data_articles, exitVia>>
         ELSE /\ ExtractRaise("error_next")
              /\ UNCHANGED <<clicks, sitePage>>
    /\ UNCHANGED <<inputs, columns, pageReads, loopVars, ending>>

LoopDoneOffByOne(i) == i >= MaxPages

(* for _ in range(9): iteration i (from 0) is the last one *)
LoopDone(i) == i + 1 >= MaxPages

(* line 192, then the next iteration of the outer loop or line 194 *)
WaitNext ==
    /\ pc = "wait_next"
    /\ \E ok \in BOOLEAN :
         IF ok
         THEN IF LoopDone(iter)
              THEN /\ ExtractReturn("pages")
                   /\ UNCHANGED iter
              ELSE /\ iter' = iter + 1
                   /\ pc' = "wait_li"
                   /\ UNCHANGED <<log, data_articles, exitVia>>
         ELSE /\ ExtractRaise("error_ready")
              /\ UNCHANGED iter
    /\ UNCHANGED <<inputs, columns, browser, date_min, li_elements, idx, seen,
                   ending>>

(* lines 286-288: the except of scrape *)
ScrapeExcept ==
    /\ log' = Append(log, "scrape")
    /\ pc' = "quit"

AddColumnsNoFinally ==
    /\ pc = "add_columns"
    /\ \E ok \in BOOLEAN :
         IF ok /\ data_articles.kind = "DataFrame"
         THEN /\ enriched' = TRUE
              /\ pc' = "save"
              /\ UNCHANGED <<log, outcome>>
         ELSE /\ log' = Append(log, "scrape")
              /\ pc' = "done"
              /\ outcome' = "returned"
              /\ UNCHANGED enriched
    /\ UNCHANGED <<inputs, columns, browser, loopVars, data_articles, exitVia,
                   quitCalls, fileWritten>>

(* line 282: _add_columns assigns columns of the frame it is given; None
   does not support item assignment *)
AddColumns ==
    /\ pc = "add_columns"
    /\ \E ok \in BOOLEAN :
         IF ok /\ data_articles.kind = "DataFrame"
         THEN /\ enriched' = TRUE
              /\ pc' = "save"
              /\ UNCHANGED <<log, outcome>>
         ELSE /\ ScrapeExcept
              /\ UNCHANGED <<enriched, outcome>>
    /\ UNCHANGED <<inputs, columns, browser, loopVars, data_articles, exitVia,
                   quitCalls, fileWritten>>

(* _save_results: failures are caught and logged inside the method *)
SaveResults ==
    /\ pc = "save"
    /\ \E ok \in BOOLEAN :
         /\ fileWritten' = ok
         /\ log' = IF ok THEN log ELSE Append(log, "save")
    /\ pc' = "quit"
    /\ UNCHANGED <<inputs, columns, browser, loopVars, data_articles, exitVia,
                   quitCalls, enriched, outcome>>

(* lines 289-291: finally: self.driver.quit(); an exception raised there
   leaves scrape *)
Quit ==
    /\ pc = "quit"
    /\ quitCalls' = quitCalls + 1
    /\ \E ok \in BOOLEAN :
         outcome' = IF ok THEN "returned" ELSE "raised"
    /\ pc' = "done"
    /\ UNCHANGED <<inputs, columns, browser, loopVars, data_articles, exitVia,
                   log, enriched, fileWritten>>

Next ==
    \/ Search
    \/ FilterCategories
    \/ ExtractInit
    \/ WaitLi
    \/ ReadDate
    \/ ReadTitle
    \/ ReadDescription
    \/ ReadPicture
    \/ ClickNext
    \/ WaitNext
    \/ AddColumns
    \/ SaveResults
    \/ Quit

Spec == Init /\ [][Next]_vars

(* the run is one sequential thread of bounded waits: it keeps stepping *)
LiveSpec == Init /\ [][Next]_vars /\ WF_vars(Next)

-----------------------------------------------------------------------------
(* The cutoff as the documentation states it: the first day of month
   (today.month - months_back) of today's year, at midnight *)
StatedCutoff == Stamp(now.y, now.m - months_back, 1, 0)

Returned == data_articles.kind = "DataFrame"

(* the entry the date step is looking at has a timestamp that parses *)
AtDatedEntry ==
    /\ pc = "read_date"
    /\ li_elements[idx].missing # "date"
    /\ Normalize(li_elements[idx].text, now).ok

CurrentDate == Normalize(li_elements[idx].text, now).value

(* listing position, among all entries handed out, of the current entry *)
CurrentPosition == Len(seen) - Len(li_elements) + idx

(* C1: the record set returned by _extract_data never holds a record whose
   normalized date is strictly less than the cutoff. *)
C1_NoRecordBelowCutoff ==
    Returned =>
        \A i \in 1..Len(data_articles.Date) :
            ~(data_articles.Date[i] < StatedCutoff)

C1_Witness ==
    /\ Returned
    /\ exitVia = "cutoff"
    /\ Len(data_articles.Date) >= 2

(* C2: when an entry's normalized date is below the cutoff, _extract_data
   returns at once exactly the records accumulated before that entry, no
   field of the entry is appended to a column, and from then on no
   next-page click and no page read happens in the run. *)
C2_StopsAtCutoff ==
    [][ /\ (AtDatedEntry /\ CurrentDate < StatedCutoff) =>
              /\ data_articles' =
                     DataFrame(date_ls, title_ls, description_ls, picture_ls)
              /\ Len(date_ls) = CurrentPosition - 1
              /\ Len(title_ls) = CurrentPosition - 1
              /\ Len(description_ls) = CurrentPosition - 1
              /\ Len(picture_ls) = CurrentPosition - 1
              /\ UNCHANGED <<columns, browser>>
              /\ exitVia' = "cutoff"
        /\ exitVia = "cutoff" => UNCHANGED <<columns, browser, data_articles>>
      ]_vars

C2_Witness ==
    /\ pc = "done"
    /\ exitVia = "cutoff"
    /\ Len(data_articles.Date) >= 1
    /\ idx < Len(li_elements)

(* C3: _extract_data reads at most MaxPages (9) result pages, and a
   returned record set holds only entries of those pages, also when the
   site has further pages. *)
C3_AtMostMaxPages ==
    /\ pageReads <= MaxPages
    /\ Returned =>
         /\ Len(data_articles.Title) <= MaxPages * site.pageLen
         /\ \A i \in 1..Len(data_articles.Title) :
              \E n \in 1..(MaxPages * site.pageLen) :
                 data_articles.Title[i] = EntryAt(site, n).title

C3_Witness ==
    /\ exitVia = "pages"
    /\ Returned
    /\ sitePage = MaxPages + 1
    /\ Len(data_articles.Title) = MaxPages * site.pageLen

(* C4: when a page was consumed without reaching the cutoff and the
   next-page control is unavailable, _extract_data returns the accumulated
   records, and they reach enrichment. *)
C4_LastPageReturnsAccumulator ==
    exitVia = "error_next" =>
        /\ data_articles =
               DataFrame(date_ls, title_ls, description_ls, picture_ls)
        /\ pc = "done" => enriched

(* C5: in every run of scrape, whichever steps fail, driver.quit() is
   eventually called, it is called once, and no step of the run follows
   the call. *)
C5_QuitOnceAndLast ==
    /\ <>(quitCalls = 1)
    /\ [][quitCalls = 0 /\ quitCalls' \in {0, 1}]_vars

C5_Witness ==
    /\ quitCalls = 1
    /\ Len(log) >= 3
    /\ log[Len(log)] = "scrape"

(* C6: scrape never raises: for every combination of failures of its
   steps, the browser release included, it terminates normally. *)
C6_NeverRaises == outcome # "raised"

(* C7 as stated: an entry whose timestamp text contains "ago" is given the
   date now and is appended, never stopping the extraction, for any
   months_back. *)
C7_AgoNeverStops ==
    [][ (AtDatedEntry /\ ContainsAgo(li_elements[idx].text)) =>
            /\ date_ls' = Append(date_ls, NowStamp(now))
            /\ pc' = "read_title"
      ]_vars

(* C7 amended: for months_back >= 0, an entry whose timestamp text contains
   "ago" is given the date now and is appended, never stopping the
   extraction. *)
C7_AgoNeverStopsNonNegative ==
    [][ (AtDatedEntry /\ ContainsAgo(li_elements[idx].text)
                      /\ months_back >= 0) =>
            /\ date_ls' = Append(date_ls, NowStamp(now))
            /\ pc' = "read_title"
      ]_vars

C7_Witness ==
    /\ months_back >= 0
    /\ Returned
    /\ Len(data_articles.Date) >= 2
    /\ ContainsAgo(seen[2].text)
    /\ data_articles.Date[2] = NowStamp(now)
    /\ data_articles.Date[1] # NowStamp(now)

(* C8: an entry whose normalized date equals the cutoff is appended and the
   extraction goes on with the rest of that entry and the next one; only a
   strictly smaller date stops it. *)
C8_CutoffDayKept ==
    [][ (AtDatedEntry /\ CurrentDate = StatedCutoff) =>
            /\ date_ls' = Append(date_ls, StatedCutoff)
            /\ pc' = "read_title"
            /\ UNCHANGED <<data_articles, exitVia>>
      ]_vars

C8_Witness ==
    /\ Returned
    /\ Len(data_articles.Date) >= 2
    /\ ~ContainsAgo(seen[1].text)
    /\ data_articles.Date[1] = StatedCutoff

(* C9: a returned record set is a prefix of the entries handed out, in
   page-then-listing order, with four columns of one length whose row i
   holds the date, title, description and picture of entry i. *)
C9_RowsAreEntriesInOrder ==
    Returned =>
        LET k == Len(data_articles.Date) IN
        /\ Len(data_articles.Title) = k
        /\ Len(data_articles.Description) = k
        /\ Len(data_articles.Picture) = k
        /\ k <= Len(seen)
        /\ \A i \in 1..Len(seen) : seen[i] = EntryAt(site, i)
        /\ \A i \in 1..k :
             /\ data_articles.Date[i] = Normalize(seen[i].text, now).value
             /\ data_articles.Title[i] = seen[i].title
             /\ data_articles.Description[i] = seen[i].description
             /\ data_articles.Picture[i] = seen[i].picture

C9_Witness ==
    /\ Returned
    /\ pageReads >= 2
    /\ Len(data_articles.Date) >= 3
    /\ data_articles.Date[1] # data_articles.Date[2]

(* C10: when today.month - months_back is outside 1..12, no result page is
   read, no next-page click happens, _extract_data logs the error and
   returns no record set, no file is written, and the browser is released
   at the end of the run. *)
C10_BadMonthReadsNothing ==
    ((now.m - months_back) \notin 1..12) =>
        /\ pageReads = 0
        /\ clicks = 0
        /\ ~fileWritten
        /\ ~Returned
        /\ pc \in {"add_columns", "quit", "done"} =>
              /\ data_articles = None
              /\ \E i \in 1..Len(log) : log[i] = "extract"
        /\ pc = "done" => quitCalls = 1

C10_Witness ==
    /\ (now.m - months_back) \notin 1..12
    /\ now.m - months_back = 0
    /\ pc = "done"

====
